---- MODULE Spec2Model ----
(***************************************************************************)
(* Model of bot/helpers/database.py: the Database class, which keeps the   *)
(* users and requests tables of the request tracker behind one process-    *)
(* wide psycopg2 connection.                                               *)
(*                                                                         *)
(* The connection is modelled with the transaction semantics psycopg2 and  *)
(* PostgreSQL give it: the first statement opens a transaction, the writes *)
(* of a transaction are seen by every later statement on the connection,   *)
(* commit() makes them durable, rollback() throws them away, and a failed  *)
(* statement leaves the transaction aborted until it is rolled back.       *)
(***************************************************************************)
EXTENDS Integers, Sequences, FiniteSets, TLC

VARIABLES
    connection,   \* self.connection: [status, db, committed]
    clock,        \* the last instant datetime.now() returned
    last,         \* the last finished call: [op, err]
    pc,           \* per handler: where its current call stands
    call,         \* per handler: the call it is running, or the last one it ran
    lastCommit,   \* the handler whose call reached connection.commit() last
    snapshot,     \* backup exporter: the dataset exported and the dataset replayed
    calls         \* the number of calls made so far

vars == <<connection, clock, last, pc, call, lastCommit, snapshot, calls>>

-----------------------------------------------------------------------------
(* Bounds of the model *)

\* calls made in one run of Spec and SpecLedger
MaxCalls == 4
\* calls made by the two handlers together in one run of SpecConc
MaxConcCalls == 3
\* length of the names in the datasets of SpecBackup
MaxStrLen == 2
\* instants per second: the clock is finer than the seconds a backup writes
TicksPerSecond == 2
\* seconds per day: the days of the weeks given to get_weekly_stats are short
SecondsPerDay == 1

\* the platform ids of the users who write to the group
UserIds == {1, 2}
\* the message ids of requests, and those of the replies that fulfill them
MsgIds == {1, 2}
AckIds == {101, 102}

-----------------------------------------------------------------------------
(* Values *)

\* SQL NULL / Python None in a BIGINT or TIMESTAMP column
NULL == -1

\* Python None in a TEXT column; text is a sequence of character codes
NullText == <<NULL>>

\* the (name, user_name) pairs the handlers pass to add_user / update_user
Profiles == { <<NullText, NullText>>, <<(<<97>>), (<<117>>)>> }

EmptyDb == [tables |-> TRUE, users |-> {}, requests |-> {}]

Result(e, d) == [err |-> e, db |-> d]

-----------------------------------------------------------------------------
(* The SQL statements, as functions of the tables the transaction sees *)

\* faulty variant, for comparison: DROP TABLE, then CREATE TABLE
CreateTables_Recreate(db) ==
    Result("none", EmptyDb)

\* CREATE TABLE IF NOT EXISTS users ...; CREATE TABLE IF NOT EXISTS requests ...
CreateTables(db) ==
    IF db.tables THEN Result("none", db)
    ELSE Result("none", EmptyDb)

\* DROP TABLE IF EXISTS users CASCADE; DROP TABLE IF EXISTS requests;
DropTables(db) ==
    Result("none", [tables |-> FALSE, users |-> {}, requests |-> {}])

\* INSERT INTO users (user_id, name, user_name) VALUES (%s, %s, %s);
InsertUser(db, user_id, name, user_name) ==
    IF ~db.tables THEN Result("UndefinedTable", db)
    ELSE IF \E u \in db.users : u.user_id = user_id
         THEN Result("UniqueViolation", db)
    ELSE Result("none",
                [db EXCEPT !.users = @ \cup
                    {[user_id |-> user_id, name |-> name, user_name |-> user_name]}])

\* UPDATE users SET name = %s, user_name = %s WHERE (user_id = %s);
UpdateUser(db, user_id, name, username) ==
    IF ~db.tables THEN Result("UndefinedTable", db)
    ELSE Result("none",
                [db EXCEPT !.users =
                    { IF u.user_id = user_id
                      THEN [u EXCEPT !.name = name, !.user_name = username]
                      ELSE u : u \in @ }])

\* the PRIMARY KEY of requests: message_id
PrimaryKeyFree(db, message_id) ==
    ~ \E r \in db.requests : r.message_id = message_id

\* CONSTRAINT fk_user_id FOREIGN KEY(user_id) REFERENCES users(user_id)
ForeignKeyHolds(db, user_id) ==
    \E u \in db.users : u.user_id = user_id

\* faulty variant, for comparison: the insert without the primary key on message_id
InsertRequest_NoPrimaryKey(db, user_id, is_english, message_id, now) ==
    IF ~db.tables THEN Result("UndefinedTable", db)
    ELSE IF ~ForeignKeyHolds(db, user_id) THEN Result("ForeignKeyViolation", db)
    ELSE Result("none",
                [db EXCEPT !.requests = @ \cup
                    {[user_id |-> user_id, is_english |-> is_english,
                      message_id |-> message_id, req_time |-> now,
                      fulfill_message_id |-> NULL, fulfill_time |-> NULL,
                      fulfilled_by |-> NULL]}])

\* faulty variant, for comparison: the insert with ON CONFLICT (message_id) DO UPDATE
InsertRequest_Upsert(db, user_id, is_english, message_id, now) ==
    IF ~db.tables THEN Result("UndefinedTable", db)
    ELSE IF ~ForeignKeyHolds(db, user_id) THEN Result("ForeignKeyViolation", db)
    ELSE IF ~PrimaryKeyFree(db, message_id)
    THEN Result("none",
                [db EXCEPT !.requests =
                    { IF r.message_id = message_id
                      THEN [r EXCEPT !.user_id = user_id, !.is_english = is_english,
                                     !.req_time = now]
                      ELSE r : r \in @ }])
    ELSE Result("none",
                [db EXCEPT !.requests = @ \cup
                    {[user_id |-> user_id, is_english |-> is_english,
                      message_id |-> message_id, req_time |-> now,
                      fulfill_message_id |-> NULL, fulfill_time |-> NULL,
                      fulfilled_by |-> NULL]}])

\* INSERT INTO requests (user_id, is_english, message_id, req_time) VALUES (...)
InsertRequest(db, user_id, is_english, message_id, now) ==
    IF ~db.tables THEN Result("UndefinedTable", db)
    ELSE IF ~PrimaryKeyFree(db, message_id) THEN Result("UniqueViolation", db)
    ELSE IF ~ForeignKeyHolds(db, user_id) THEN Result("ForeignKeyViolation", db)
    ELSE Result("none",
                [db EXCEPT !.requests = @ \cup
                    {[user_id |-> user_id, is_english |-> is_english,
                      message_id |-> message_id, req_time |-> now,
                      fulfill_message_id |-> NULL, fulfill_time |-> NULL,
                      fulfilled_by |-> NULL]}])

\* DELETE FROM requests WHERE message_id = %s;
DeleteRequest(db, message_id) ==
    IF ~db.tables THEN Result("UndefinedTable", db)
    ELSE Result("none",
                [db EXCEPT !.requests = { r \in @ : r.message_id # message_id }])

\* UPDATE requests SET fulfill_message_id = NULL, fulfill_time = NULL,
\* faulty variant, for comparison: the update leaves fulfilled_by out of its SET list
ClearFulfillment_KeepsFulfilledBy(db, user_id, message_id) ==
    IF ~db.tables THEN Result("UndefinedTable", db)
    ELSE Result("none",
                [db EXCEPT !.requests =
                    { IF r.user_id = user_id /\ r.message_id = message_id
                      THEN [r EXCEPT !.fulfill_message_id = NULL,
                                     !.fulfill_time = NULL]
                      ELSE r : r \in @ }])

\*   fulfilled_by = NULL WHERE (user_id = %s AND message_id = %s);
ClearFulfillment(db, user_id, message_id) ==
    IF ~db.tables THEN Result("UndefinedTable", db)
    ELSE Result("none",
                [db EXCEPT !.requests =
                    { IF r.user_id = user_id /\ r.message_id = message_id
                      THEN [r EXCEPT !.fulfill_message_id = NULL,
                                     !.fulfill_time = NULL,
                                     !.fulfilled_by = NULL]
                      ELSE r : r \in @ }])

\* faulty variant, for comparison: the update leaves fulfilled_by out of its SET list
SetFulfillment_NoFulfilledBy(db, user_id, message_id, fulfill_id, now, fulfilled_by) ==
    IF ~db.tables THEN Result("UndefinedTable", db)
    ELSE Result("none",
                [db EXCEPT !.requests =
                    { IF r.user_id = user_id /\ r.message_id = message_id
                      THEN [r EXCEPT !.fulfill_message_id = fulfill_id,
                                     !.fulfill_time = now]
                      ELSE r : r \in @ }])

\* faulty variant, for comparison: the update stores the epoch instead of datetime.now()
SetFulfillment_EpochTime(db, user_id, message_id, fulfill_id, now, fulfilled_by) ==
    IF ~db.tables THEN Result("UndefinedTable", db)
    ELSE Result("none",
                [db EXCEPT !.requests =
                    { IF r.user_id = user_id /\ r.message_id = message_id
                      THEN [r EXCEPT !.fulfill_message_id = fulfill_id,
                                     !.fulfill_time = 0,
                                     !.fulfilled_by = fulfilled_by]
                      ELSE r : r \in @ }])

\* faulty variant, for comparison: the update without user_id in its WHERE clause
SetFulfillment_AnyUser(db, user_id, message_id, fulfill_id, now, fulfilled_by) ==
    IF ~db.tables THEN Result("UndefinedTable", db)
    ELSE Result("none",
                [db EXCEPT !.requests =
                    { IF r.message_id = message_id
                      THEN [r EXCEPT !.fulfill_message_id = fulfill_id,
                                     !.fulfill_time = now,
                                     !.fulfilled_by = fulfilled_by]
                      ELSE r : r \in @ }])

\* UPDATE requests SET fulfill_message_id = %s, fulfill_time = %s,
\*   fulfilled_by = %s WHERE (user_id = %s AND message_id = %s);
SetFulfillment(db, user_id, message_id, fulfill_id, now, fulfilled_by) ==
    IF ~db.tables THEN Result("UndefinedTable", db)
    ELSE Result("none",
                [db EXCEPT !.requests =
                    { IF r.user_id = user_id /\ r.message_id = message_id
                      THEN [r EXCEPT !.fulfill_message_id = fulfill_id,
                                     !.fulfill_time = now,
                                     !.fulfilled_by = fulfilled_by]
                      ELSE r : r \in @ }])

\* faulty variant, for comparison: the update without its WHERE clause
SetFulfilledBy_AllRows(db, fulfill_message_id, fulfilled_by) ==
    IF ~db.tables THEN Result("UndefinedTable", db)
    ELSE Result("none",
                [db EXCEPT !.requests =
                    { [r EXCEPT !.fulfilled_by = fulfilled_by] : r \in @ }])

\* UPDATE requests SET fulfilled_by = %s WHERE fulfill_message_id = %s;
SetFulfilledBy(db, fulfill_message_id, fulfilled_by) ==
    IF ~db.tables THEN Result("UndefinedTable", db)
    ELSE Result("none",
                [db EXCEPT !.requests =
                    { IF r.fulfill_message_id = fulfill_message_id
                      THEN [r EXCEPT !.fulfilled_by = fulfilled_by]
                      ELSE r : r \in @ }])

\* faulty variant, for comparison: the foreign key without ON DELETE CASCADE checks nothing on delete
DeleteUserOnly(db, user_id) ==
    IF ~db.tables THEN Result("UndefinedTable", db)
    ELSE Result("none", [db EXCEPT !.users = { u \in @ : u.user_id # user_id }])

\* DELETE FROM users WHERE user_id = %s, with requests.user_id ON DELETE CASCADE
DeleteUserCascade(db, user_id) ==
    IF ~db.tables THEN Result("UndefinedTable", db)
    ELSE Result("none",
                [db EXCEPT !.users = { u \in @ : u.user_id # user_id },
                           !.requests = { r \in @ : r.user_id # user_id }])

-----------------------------------------------------------------------------
(* The aggregation queries *)

\* faulty variant, for comparison: COUNT(fulfill_time), which counts no pending row
GroupCount_CountFulfillTime(rows) ==
    LET group(f, e) == { r \in rows : (r.fulfill_time # NULL) = f /\ r.is_english = e }
    IN  { <<f, e, Cardinality({ r \in group(f, e) : r.fulfill_time # NULL })>> :
            <<f, e>> \in { g \in BOOLEAN \X BOOLEAN : group(g[1], g[2]) # {} } }

\* SELECT is_fulfilled, is_english, COUNT(is_english) AS cnt FROM new_table
\*   GROUP BY is_english, is_fulfilled;
\* with new_table the rows' is_english and (fulfill_time IS NOT NULL)
GroupCount(rows) ==
    LET group(f, e) == { r \in rows : (r.fulfill_time # NULL) = f /\ r.is_english = e }
    IN  { <<f, e, Cardinality(group(f, e))>> :
            <<f, e>> \in { g \in BOOLEAN \X BOOLEAN : group(g[1], g[2]) # {} } }

\* faulty variant, for comparison: the fulfilled branch sets english_fulfilled whatever is_english is
Tally_OneFulfilledCounter(result) ==
    LET counter(f, e) ==
            IF \E g \in result : g[1] = f /\ g[2] = e
            THEN (CHOOSE g \in result : g[1] = f /\ g[2] = e)[3]
            ELSE 0
    IN  <<IF counter(TRUE, FALSE) # 0 THEN counter(TRUE, FALSE) ELSE counter(TRUE, TRUE),
          0, counter(FALSE, TRUE), counter(FALSE, FALSE)>>

\* the loop over the cursor: each (is_fulfilled, is_english, req_count) row
\* sets one of the four counters, which start at 0
Tally(result) ==
    LET counter(f, e) ==
            IF \E g \in result : g[1] = f /\ g[2] = e
            THEN (CHOOSE g \in result : g[1] = f /\ g[2] = e)[3]
            ELSE 0
    IN  <<counter(TRUE, TRUE), counter(TRUE, FALSE),
          counter(FALSE, TRUE), counter(FALSE, FALSE)>>

get_user_stats(db, user_id) ==
    Tally(GroupCount({ r \in db.requests : r.user_id = user_id }))

get_global_stats(db) ==
    Tally(GroupCount(db.requests))

-----------------------------------------------------------------------------
(* The connection *)

NewConnection ==
    [status |-> "IDLE", db |-> EmptyDb, committed |-> EmptyDb]

\* cur.execute(...): returns [connection, err]
Execute(conn, r) ==
    IF conn.status = "INERROR"
    THEN [connection |-> conn, err |-> "InFailedSqlTransaction"]
    ELSE IF r.err # "none"
    THEN [connection |-> [conn EXCEPT !.status = "INERROR"], err |-> r.err]
    ELSE [connection |-> [conn EXCEPT !.status = "INTRANS", !.db = r.db],
          err |-> "none"]

\* self.connection.rollback()
Rollback(conn) ==
    [conn EXCEPT !.status = "IDLE", !.db = conn.committed]

\* self.connection.commit(): COMMIT of an aborted transaction rolls it back
Commit(conn) ==
    IF conn.status = "INERROR"
    THEN [conn EXCEPT !.status = "IDLE", !.db = conn.committed]
    ELSE [conn EXCEPT !.status = "IDLE", !.committed = conn.db]

\* try: cur.execute(..) / except: rollback(); raise / finally: commit()
TryExceptFinallyCommit(conn, r) ==
    LET x == Execute(conn, r) IN
    [connection |-> IF x.err = "none" THEN Commit(x.connection)
                    ELSE Commit(Rollback(x.connection)),
     err |-> x.err]

\* try: cur.execute(..) / except: rollback(); raise / finally: cur.close()
TryExcept(conn, r) ==
    LET x == Execute(conn, r) IN
    [connection |-> IF x.err = "none" THEN x.connection
                    ELSE Rollback(x.connection),
     err |-> x.err]

-----------------------------------------------------------------------------
(* The operations of Database, each one whole call on an idle connection *)

\* datetime.now(): the last instant read, or a later one
Now == {clock, clock + 1}

Finished(op, x) ==
    /\ calls < MaxCalls
    /\ calls' = calls + 1
    /\ connection' = x.connection
    /\ last' = [op |-> op, err |-> x.err]
    /\ UNCHANGED <<pc, call, lastCommit, snapshot>>

create_schema ==
    /\ Finished("create_schema",
                TryExceptFinallyCommit(connection, CreateTables(connection.db)))
    /\ UNCHANGED clock

drop_database ==
    /\ Finished("drop_database",
                TryExceptFinallyCommit(connection, DropTables(connection.db)))
    /\ UNCHANGED clock

add_user(user_id, name, user_name) ==
    /\ Finished("add_user",
                TryExceptFinallyCommit(connection,
                    InsertUser(connection.db, user_id, name, user_name)))
    /\ UNCHANGED clock

update_user(user_id, name, username) ==
    /\ Finished("update_user",
                TryExcept(connection,
                    UpdateUser(connection.db, user_id, name, username)))
    /\ UNCHANGED clock

delete_request(message_id) ==
    /\ Finished("delete_request",
                TryExceptFinallyCommit(connection,
                    DeleteRequest(connection.db, message_id)))
    /\ UNCHANGED clock

register_request(user_id, is_english, message_id) ==
    \E now \in Now :
        /\ Finished("register_request",
                    TryExceptFinallyCommit(connection,
                        InsertRequest(connection.db, user_id, is_english, message_id, now)))
        /\ clock' = now

mark_request_not_done(user_id, message_id) ==
    /\ Finished("mark_request_not_done",
                TryExceptFinallyCommit(connection,
                    ClearFulfillment(connection.db, user_id, message_id)))
    /\ UNCHANGED clock

register_request_fulfillment(user_id, message_id, fulfill_id, fulfilled_by) ==
    \E now \in Now :
        /\ Finished("register_request_fulfillment",
                    TryExceptFinallyCommit(connection,
                        SetFulfillment(connection.db, user_id, message_id,
                                       fulfill_id, now, fulfilled_by)))
        /\ clock' = now

update_fulfilled_by(fulfill_message_id, fulfilled_by) ==
    /\ Finished("update_fulfilled_by",
                TryExceptFinallyCommit(connection,
                    SetFulfilledBy(connection.db, fulfill_message_id, fulfilled_by)))
    /\ UNCHANGED clock

\* run_qeury("DELETE FROM users WHERE user_id = ..."): the only way a user row is removed
run_qeury_delete_user(user_id) ==
    /\ Finished("run_qeury",
                TryExceptFinallyCommit(connection,
                    DeleteUserCascade(connection.db, user_id)))
    /\ UNCHANGED clock

-----------------------------------------------------------------------------
(* Spec: the calls of one handler at a time *)

Handlers == {1, 2}

NoCall == [op |-> "none"]

NoSnapshot ==
    [stage |-> "none", exported |-> EmptyDb, users_sql |-> {}, requests_sql |-> {},
     replayed |-> EmptyDb, files |-> {}]

\* the database an earlier process left: the users U have written to the group
Known(U) ==
    [EmptyDb EXCEPT !.users =
        { [user_id |-> u, name |-> NullText, user_name |-> NullText] : u \in U }]

\* Database.__init__: connect, then create_schema()
Construct(d) ==
    /\ connection = Commit(Execute([NewConnection EXCEPT !.db = d, !.committed = d],
                                   CreateTables(d)).connection)
    /\ clock = 0
    /\ last = [op |-> "create_schema", err |-> "none"]
    /\ pc = [h \in Handlers |-> "idle"]
    /\ call = [h \in Handlers |-> NoCall]
    /\ lastCommit = 0
    /\ snapshot = NoSnapshot
    /\ calls = 0

\* the bot starts on a new database
Init == Construct(EmptyDb)

\* the bot starts on the database an earlier process left
InitLedger == Construct(Known(UserIds))

AddUser == \E u \in UserIds, p \in Profiles : add_user(u, p[1], p[2])

UpdateUserCall == \E u \in UserIds, p \in Profiles : update_user(u, p[1], p[2])

RegisterRequest ==
    \E u \in UserIds, e \in BOOLEAN, m \in MsgIds : register_request(u, e, m)

Fulfill ==
    \E u \in UserIds, m \in MsgIds, f \in AckIds, b \in UserIds :
        register_request_fulfillment(u, m, f, b)

Revert == \E u \in UserIds, m \in MsgIds : mark_request_not_done(u, m)

Reassign == \E f \in AckIds, b \in UserIds : update_fulfilled_by(f, b)

Delete == \E m \in MsgIds : delete_request(m)

RemoveUser == \E u \in UserIds : run_qeury_delete_user(u)

Next ==
    \/ create_schema
    \/ drop_database
    \/ AddUser
    \/ UpdateUserCall
    \/ RegisterRequest
    \/ Fulfill
    \/ Revert
    \/ Reassign
    \/ Delete
    \/ RemoveUser

Spec == Init /\ [][Next]_vars

(* SpecLedger: the request ledger's calls, on a database whose users exist *)

NextLedger ==
    \/ RegisterRequest
    \/ Fulfill
    \/ Revert
    \/ Reassign
    \/ Delete

SpecLedger == InitLedger /\ [][NextLedger]_vars

(* SpecStored: the request ledger's calls, on a database that holds a request *)

\* the database an earlier process left: the users, and a request of user 1
\* that nobody has fulfilled
StoredLedger ==
    [Known(UserIds) EXCEPT !.requests =
        { [user_id |-> 1, is_english |-> TRUE, message_id |-> 1, req_time |-> 0,
           fulfill_message_id |-> NULL, fulfill_time |-> NULL,
           fulfilled_by |-> NULL] }]

InitStored == Construct(StoredLedger)

SpecStored == InitStored /\ [][NextLedger]_vars

-----------------------------------------------------------------------------
(* SpecConc: two handlers share the connection; a call is the steps          *)
(* cur.execute, connection.rollback (after an error), connection.commit      *)

\* the statement a call executes
Statement(c, db) ==
    CASE c.op = "add_user" -> InsertUser(db, c.user_id, c.name, c.user_name)
      [] c.op = "update_user" -> UpdateUser(db, c.user_id, c.name, c.user_name)
      [] c.op = "register_request" ->
            InsertRequest(db, c.user_id, c.is_english, c.message_id, c.now)
      [] c.op = "register_request_fulfillment" ->
            SetFulfillment(db, c.user_id, c.message_id, c.fulfill_id, c.now,
                           c.fulfilled_by)

\* update_user has no connection.commit() in its finally clause
Commits(c) == c.op # "update_user"

\* the calls the two handlers make: a user is added or renamed, user 1 opens
\* a request, and a helper acknowledges a request of user 1
Acks == { <<101, 1>>, <<102, 2>> }

ConcCalls ==
    { [op |-> "add_user", user_id |-> u, name |-> NullText, user_name |-> NullText,
       err |-> "none"] : u \in UserIds }
    \cup
    { [op |-> "update_user", user_id |-> 1, name |-> p[1], user_name |-> p[2],
       err |-> "none"] : p \in Profiles \ {<<NullText, NullText>>} }
    \cup
    { [op |-> "register_request", user_id |-> 1, is_english |-> TRUE,
       message_id |-> m, now |-> t, err |-> "none"] : m \in MsgIds, t \in Now }
    \cup
    { [op |-> "register_request_fulfillment", user_id |-> 1, message_id |-> m,
       fulfill_id |-> a[1], fulfilled_by |-> a[2], now |-> t, err |-> "none"] :
       m \in MsgIds, a \in Acks, t \in Now }

\* cur.execute(...) in the try block
cur_execute(h) ==
    /\ pc[h] = "idle"
    /\ calls < MaxConcCalls
    /\ \E c \in ConcCalls :
          LET x == Execute(connection, Statement(c, connection.db)) IN
          /\ connection' = x.connection
          /\ call' = [call EXCEPT ![h] = [c EXCEPT !.err = x.err]]
          /\ pc' = [pc EXCEPT ![h] = IF x.err = "none" THEN "executed" ELSE "raised"]
          /\ clock' = IF "now" \in DOMAIN c THEN c.now ELSE clock
    /\ calls' = calls + 1
    /\ UNCHANGED <<last, lastCommit, snapshot>>

\* except Exception: self.connection.rollback(); raise
connection_rollback(h) ==
    /\ pc[h] = "raised"
    /\ connection' = Rollback(connection)
    /\ pc' = [pc EXCEPT ![h] = "rolledback"]
    /\ UNCHANGED <<clock, last, call, lastCommit, snapshot, calls>>

\* finally: self.connection.commit(); cur.close()
connection_commit(h) ==
    /\ pc[h] \in {"executed", "rolledback"}
    /\ Commits(call[h])
    /\ connection' = Commit(connection)
    /\ pc' = [pc EXCEPT ![h] = "idle"]
    /\ last' = [op |-> call[h].op, err |-> call[h].err]
    /\ lastCommit' = h
    /\ UNCHANGED <<clock, call, snapshot, calls>>

\* finally: cur.close()
cur_close(h) ==
    /\ pc[h] \in {"executed", "rolledback"}
    /\ ~Commits(call[h])
    /\ pc' = [pc EXCEPT ![h] = "idle"]
    /\ last' = [op |-> call[h].op, err |-> call[h].err]
    /\ UNCHANGED <<connection, clock, call, lastCommit, snapshot, calls>>

\* the bot starts on a database that knows user 1
InitConc == Construct(Known({1}))

NextConc ==
    \E h \in Handlers :
        \/ cur_execute(h)
        \/ connection_rollback(h)
        \/ connection_commit(h)
        \/ cur_close(h)

SpecConc == InitConc /\ [][NextConc]_vars

-----------------------------------------------------------------------------
(* SpecBackup: get_backup_data on a stored dataset, and the replay of the     *)
(* statements it wrote into an empty schema                                   *)

\* character codes: a ' " \
Chars == {97, 39, 34, 92}

Range(f) == { f[i] : i \in DOMAIN f }

RECURSIVE Flatten(_)
Flatten(ss) == IF ss = <<>> THEN <<>> ELSE Head(ss) \o Flatten(Tail(ss))

\* a literal in an INSERT statement: its kind and its characters (the digits
\* of a number and of a timestamp are kept as the number they spell)
Token(kind, text) == [kind |-> kind, text |-> text]

\* repr(val) of a str: quoted with ", when the text holds a ' and no ", and
\* with ' otherwise; a backslash and the quoting character get a backslash
PyReprStr(val) ==
    LET dq == 39 \in Range(val) /\ 34 \notin Range(val)
        quote == IF dq THEN 34 ELSE 39
        esc(c) == IF c = 92 \/ c = quote THEN <<92, c>> ELSE <<c>>
    IN  Token(IF dq THEN "double_quoted" ELSE "single_quoted",
              Flatten([i \in DOMAIN val |-> esc(val[i])]))

\* format_data(val), for a value of a column of the given type
format_data(type, val) ==
    CASE type = "TEXT" ->
            IF val = NullText THEN Token("NULL", <<>>) ELSE PyReprStr(val)
      [] type = "TIMESTAMP" ->
            IF val = NULL THEN Token("NULL", <<>>)
            ELSE Token("single_quoted", <<val \div TicksPerSecond>>)
      [] type = "BIGINT" ->
            IF val = NULL THEN Token("NULL", <<>>) ELSE Token("number", <<val>>)
      [] type = "BOOLEAN" ->
            Token("keyword", <<IF val THEN 1 ELSE 0>>)

\* the lines get_backup_data writes to users.sql and to requests.sql:
\* INSERT INTO <table> (<columns>) VALUES (<format_data of each value>);
users_sql(db) ==
    { <<format_data("BIGINT", u.user_id), format_data("TEXT", u.name),
        format_data("TEXT", u.user_name)>> : u \in db.users }

requests_sql(db) ==
    { <<format_data("BIGINT", r.user_id), format_data("BOOLEAN", r.is_english),
        format_data("BIGINT", r.message_id), format_data("TIMESTAMP", r.req_time),
        format_data("BIGINT", r.fulfill_message_id),
        format_data("TIMESTAMP", r.fulfill_time),
        format_data("BIGINT", r.fulfilled_by)>> : r \in db.requests }

\* the text of a '...' literal as PostgreSQL reads it: '' is a quote, a single
\* ' ends the literal (and what follows it is a syntax error), a backslash is
\* a character like any other
RECURSIVE SqlString(_)
SqlString(text) ==
    IF text = <<>> THEN [ok |-> TRUE, val |-> <<>>]
    ELSE IF Head(text) = 39
    THEN IF Len(text) >= 2 /\ text[2] = 39
         THEN LET rest == SqlString(Tail(Tail(text)))
              IN  [ok |-> rest.ok, val |-> <<39>> \o rest.val]
         ELSE [ok |-> FALSE, val |-> <<>>]
    ELSE LET rest == SqlString(Tail(text))
         IN  [ok |-> rest.ok, val |-> <<Head(text)>> \o rest.val]

\* the value PostgreSQL stores for a literal in a column of the given type;
\* a "..." token is an identifier, which names no column here
SqlValue(type, token) ==
    CASE token.kind = "double_quoted" -> [ok |-> FALSE, val |-> <<>>]
      [] token.kind = "NULL" ->
            [ok |-> TRUE, val |-> IF type = "TEXT" THEN NullText ELSE NULL]
      [] token.kind = "number" -> [ok |-> TRUE, val |-> token.text[1]]
      [] token.kind = "keyword" -> [ok |-> TRUE, val |-> token.text[1] = 1]
      [] token.kind = "single_quoted" ->
            IF type = "TIMESTAMP"
            THEN [ok |-> TRUE, val |-> token.text[1] * TicksPerSecond]
            ELSE SqlString(token.text)

\* run_qeury(line) for every line of users.sql, then of requests.sql, on the
\* tables create_schema makes; a line that raises inserts nothing
ReplayUsers(lines) ==
    LET read(l) == <<SqlValue("BIGINT", l[1]), SqlValue("TEXT", l[2]),
                     SqlValue("TEXT", l[3])>>
    IN  { [user_id |-> read(l)[1].val, name |-> read(l)[2].val,
           user_name |-> read(l)[3].val] :
          l \in { x \in lines : \A i \in 1..3 : read(x)[i].ok } }

ReplayRequests(lines, stored) ==
    LET types == <<"BIGINT", "BOOLEAN", "BIGINT", "TIMESTAMP", "BIGINT",
                   "TIMESTAMP", "BIGINT">>
        read(l) == [i \in 1..7 |-> SqlValue(types[i], l[i])]
        rows == { [user_id |-> read(l)[1].val, is_english |-> read(l)[2].val,
                   message_id |-> read(l)[3].val, req_time |-> read(l)[4].val,
                   fulfill_message_id |-> read(l)[5].val,
                   fulfill_time |-> read(l)[6].val,
                   fulfilled_by |-> read(l)[7].val] :
                  l \in { x \in lines : \A i \in 1..7 : read(x)[i].ok } }
    IN  { r \in rows : \E u \in stored : u.user_id = r.user_id }

Replay(users_lines, requests_lines) ==
    LET stored == ReplayUsers(users_lines)
    IN  [tables |-> TRUE, users |-> stored,
         requests |-> ReplayRequests(requests_lines, stored)]

\* the steps of get_backup_data's try block that can raise, in the order they
\* run: ZipFile(zip_file_name, "w"), and for each table cur.execute(SELECT),
\* f.write(...) into the opened <table>.sql and zipObj.write(<table>.sql),
\* then zipObj.close()
ExportSteps ==
    <<"ZipFile", "execute_users", "write_users", "zip_users",
      "execute_requests", "write_requests", "zip_requests", "close">>

\* the file a step creates in the working directory before it can raise
Creates(step) ==
    CASE step = "ZipFile" -> {}
      [] step = "write_users" -> {"users.sql"}
      [] step = "write_requests" -> {"requests.sql"}
      [] OTHER -> {}

\* the file a step has created once it is over
Created(step) ==
    IF step = "ZipFile" THEN {"zip_file_name"} ELSE Creates(step)

\* the files in the working directory when get_backup_data is over: step k
\* raised (k = 0: no step raised, and os.remove took the two .sql files away)
ExportFiles(k) ==
    IF k = 0 THEN {"zip_file_name"}
    ELSE UNION { Created(ExportSteps[i]) : i \in 1..(k - 1) }
         \cup Creates(ExportSteps[k])

\* the exception step k raises
ExportError(k) ==
    CASE k = 0 -> "none"
      [] ExportSteps[k] \in {"execute_users", "execute_requests"} -> "OperationalError"
      [] OTHER -> "OSError"

\* get_backup_data: SELECT * FROM each table, one line per row; a step of it
\* may raise (the tables are gone, the store is away, the disk is full)
get_backup_data ==
    /\ snapshot.stage = "none"
    /\ \E fault \in 0..Len(ExportSteps) :
        LET k == IF ~connection.db.tables /\ (fault = 0 \/ fault > 2) THEN 2 ELSE fault
            e == IF ~connection.db.tables /\ k = 2 THEN "UndefinedTable"
                 ELSE ExportError(k)
            x == TryExceptFinallyCommit(connection, Result(e, connection.db)) IN
        /\ connection' = x.connection
        /\ last' = [op |-> "get_backup_data", err |-> e]
        /\ snapshot' = IF e = "none"
                       THEN [snapshot EXCEPT !.stage = "exported",
                                             !.exported = connection.db,
                                             !.users_sql = users_sql(connection.db),
                                             !.requests_sql = requests_sql(connection.db),
                                             !.files = ExportFiles(k)]
                       ELSE [snapshot EXCEPT !.stage = "failed",
                                             !.files = ExportFiles(k)]
    /\ UNCHANGED <<clock, pc, call, lastCommit, calls>>

\* the schema is cleared and the lines of the snapshot are run
replay_snapshot ==
    /\ snapshot.stage = "exported"
    /\ snapshot' = [snapshot EXCEPT !.stage = "replayed",
                                    !.replayed = Replay(snapshot.users_sql,
                                                        snapshot.requests_sql)]
    /\ connection' = [connection EXCEPT !.status = "IDLE",
                                        !.db = snapshot'.replayed,
                                        !.committed = snapshot'.replayed]
    /\ last' = [op |-> "run_qeury", err |-> "none"]
    /\ UNCHANGED <<clock, pc, call, lastCommit, calls>>

\* the names of up to MaxStrLen characters, and no name
Texts ==
    {NullText} \cup UNION { [1..n -> Chars] : n \in 0..MaxStrLen }

\* the instants of the first two seconds
BackupTimes == 0 .. (2 * TicksPerSecond - 1)

\* the datasets of SpecBackup: user 1, with any name, and no request or one
\* request of user 1, pending or fulfilled
BackupDatasets ==
    LET user(n) == [user_id |-> 1, name |-> n, user_name |-> NullText]
        pending == { [user_id |-> 1, is_english |-> e, message_id |-> 1,
                      req_time |-> t, fulfill_message_id |-> NULL,
                      fulfill_time |-> NULL, fulfilled_by |-> NULL] :
                     e \in BOOLEAN, t \in BackupTimes }
        fulfilled == UNION { { [r EXCEPT !.fulfill_message_id = 101,
                                        !.fulfill_time = t,
                                        !.fulfilled_by = 2] :
                               t \in { x \in BackupTimes : x >= r.req_time } } :
                             r \in pending }
    IN  { [tables |-> TRUE, users |-> {user(n)}, requests |-> rs] :
          n \in Texts, rs \in {{}} \cup { {r} : r \in pending \cup fulfilled } }

InitBackup == \E d \in BackupDatasets : Construct(d)

NextBackup ==
    \/ get_backup_data
    \/ replay_snapshot

SpecBackup == InitBackup /\ [][NextBackup]_vars

-----------------------------------------------------------------------------
(* get_weekly_stats, as one call and as the queries it runs one by one *)

\* timedelta(days=1), in instants of the clock
OneDay == SecondsPerDay * TicksPerSecond

\* the weeks a report asks for, as (week_start, week_end, week_number): two
\* consecutive windows, each from the first instant of its first day to its
\* last day (here the same day)
Weeks == << <<0, 0, 1>>, <<OneDay, OneDay, 2>> >>

\* SELECT count(message_id) FROM requests WHERE req_time >= %s AND req_time <= %s;
CountRequests(db, week_start, week_end) ==
    Cardinality({ r \in db.requests :
                    r.req_time # NULL /\ r.req_time >= week_start
                                      /\ r.req_time <= week_end })

\* SELECT count(message_id) FROM requests WHERE fulfill_time >= %s AND fulfill_time <= %s;
CountFulfilled(db, week_start, week_end) ==
    Cardinality({ r \in db.requests :
                    r.fulfill_time # NULL /\ r.fulfill_time >= week_start
                                          /\ r.fulfill_time <= week_end })

\* results[week_number] = (requests_count, fulfill_count)
Store(results, week_number, counts) ==
    [n \in DOMAIN results \cup {week_number} |->
        IF n = week_number THEN counts ELSE results[n]]

\* for week in weeks: ..., on tables that no write changes meanwhile
RECURSIVE WeeklyLoop(_, _, _)
WeeklyLoop(db, weeks, results) ==
    IF weeks = <<>> THEN results
    ELSE LET week == Head(weeks)
             week_end == week[2] + OneDay
         IN  WeeklyLoop(db, Tail(weeks),
                        Store(results, week[3],
                              <<CountRequests(db, week[1], week_end),
                                CountFulfilled(db, week[1], week_end)>>))

get_weekly_stats(db, weeks) == WeeklyLoop(db, weeks, <<>>)

(* SpecWeekly: handler 1 runs get_weekly_stats query by query, and handler 2 *)
(* makes whole calls that write between two of its queries                   *)

\* cur = self.connection.cursor(); results = {}
weekly_begin(h) ==
    /\ pc[h] = "idle"
    /\ calls < MaxCalls
    /\ calls' = calls + 1
    /\ call' = [call EXCEPT ![h] =
                    [op |-> "get_weekly_stats", weeks |-> Weeks, week |-> 1,
                     requests_count |-> 0, results |-> <<>>,
                     seen |-> {connection.db}, err |-> "none"]]
    /\ pc' = [pc EXCEPT ![h] = "count_requests"]
    /\ UNCHANGED <<connection, clock, last, lastCommit, snapshot>>

\* the first cur.execute of the loop body; requests_count = cur.fetchone()[0]
weekly_count_requests(h) ==
    /\ pc[h] = "count_requests"
    /\ LET week == call[h].weeks[call[h].week]
           x == Execute(connection, Result("none", connection.db)) IN
       /\ connection' = x.connection
       /\ call' = [call EXCEPT ![h].requests_count =
                        CountRequests(connection.db, week[1], week[2] + OneDay)]
    /\ pc' = [pc EXCEPT ![h] = "count_fulfilled"]
    /\ UNCHANGED <<clock, last, lastCommit, snapshot, calls>>

\* the second cur.execute of the loop body; results[week_number] = (..., ...)
weekly_count_fulfilled(h) ==
    /\ pc[h] = "count_fulfilled"
    /\ LET week == call[h].weeks[call[h].week]
           x == Execute(connection, Result("none", connection.db))
           fulfill_count == CountFulfilled(connection.db, week[1], week[2] + OneDay) IN
       /\ connection' = x.connection
       /\ call' = [call EXCEPT ![h].results =
                        Store(@, week[3], <<call[h].requests_count, fulfill_count>>),
                                ![h].week = @ + 1]
    /\ pc' = [pc EXCEPT ![h] = IF call[h].week < Len(call[h].weeks)
                               THEN "count_requests" ELSE "executed"]
    /\ UNCHANGED <<clock, last, lastCommit, snapshot, calls>>

\* the calls of the other handler that write a request
WeeklyWrites == { c \in ConcCalls : "now" \in DOMAIN c }

\* a whole call of handler h, while the other handler may be between two queries
other_call(h) ==
    /\ pc[h] = "idle"
    /\ calls < MaxCalls
    /\ calls' = calls + 1
    /\ \E c \in WeeklyWrites :
          LET x == TryExceptFinallyCommit(connection, Statement(c, connection.db)) IN
          /\ connection' = x.connection
          /\ clock' = c.now
          /\ last' = [op |-> c.op, err |-> x.err]
          /\ call' = [g \in Handlers |->
                        IF g = h THEN [c EXCEPT !.err = x.err]
                        ELSE IF pc[g] # "idle" /\ call[g].op = "get_weekly_stats"
                        THEN [call[g] EXCEPT !.seen = @ \cup {x.connection.db}]
                        ELSE call[g]]
    /\ lastCommit' = h
    /\ UNCHANGED <<pc, snapshot>>

NextWeekly ==
    \/ weekly_begin(1)
    \/ weekly_count_requests(1)
    \/ weekly_count_fulfilled(1)
    \/ connection_commit(1)
    \/ other_call(2)

SpecWeekly == InitConc /\ [][NextWeekly]_vars

-----------------------------------------------------------------------------
(* The lookups: what a call may return on the tables it reads *)

\* the orders in which ORDER BY <key> may return the rows: ascending by key,
\* rows of equal key in any order
OrderBy(rows, key) ==
    { s \in [1..Cardinality(rows) -> rows] :
        /\ \A i, j \in DOMAIN s : i # j => s[i] # s[j]
        /\ \A i, j \in DOMAIN s : i < j => key[s[i]] <= key[s[j]] }

\* faulty variant, for comparison: the query without ORDER BY req_time
get_pending_requests_Unordered(db) ==
    LET rows == { r \in db.requests : r.fulfill_time = NULL }
        any == [r \in rows |-> 0]
    IN  { [i \in DOMAIN s |->
              [user_id |-> s[i].user_id, is_english |-> s[i].is_english,
               message_id |-> s[i].message_id, req_time |-> s[i].req_time]] :
          s \in OrderBy(rows, any) }

\* get_pending_requests(): SELECT user_id, is_english, message_id, req_time
\* FROM requests WHERE fulfill_time is NULL ORDER BY req_time; the lists of
\* dicts it may return
get_pending_requests(db) ==
    LET rows == { r \in db.requests : r.fulfill_time = NULL }
        req_time == [r \in rows |-> r.req_time]
    IN  { [i \in DOMAIN s |->
              [user_id |-> s[i].user_id, is_english |-> s[i].is_english,
               message_id |-> s[i].message_id, req_time |-> s[i].req_time]] :
          s \in OrderBy(rows, req_time) }

\* Python values a lookup returns: None, a tuple, a dict (its values in the
\* order of its keys); None inside a tuple or dict is NULL, and True and
\* False are the numbers 1 and 0 they are equal to
PyNone == [type |-> "NoneType", items |-> <<>>]
PyTuple(items) == [type |-> "tuple", items |-> items]
PyDict(items) == [type |-> "dict", items |-> items]
PyBool(b) == IF b THEN 1 ELSE 0

\* next(cur, (None, ..., None)) when the cursor has no row
Nones(n) == [i \in 1..n |-> NULL]

\* the columns user_id, is_english, message_id, req_time, fulfill_message_id,
\* fulfill_time of a row, followed by fulfilled_by when n = 7
Columns(r, n) ==
    LET six == <<r.user_id, PyBool(r.is_english), r.message_id, r.req_time,
                 r.fulfill_message_id, r.fulfill_time>>
    IN  IF n = 7 THEN Append(six, r.fulfilled_by) ELSE six

\* what a lookup does on the tables db: it raises, or returns one of values
Returned(db, values) ==
    IF ~db.tables THEN { [err |-> "UndefinedTable", value |-> PyNone] }
    ELSE { [err |-> "none", value |-> v] : v \in values }

\* get_user: (usr_id) = next(cur, (None)) binds the whole row
get_user(db, user_id) ==
    Returned(db, IF \E u \in db.users : u.user_id = user_id
                 THEN { PyTuple(<<user_id>>) } ELSE { PyNone })

get_user_details(db, user_id) ==
    Returned(db, IF \E u \in db.users : u.user_id = user_id
                 THEN { PyDict(<<u.user_id, u.name, u.user_name>>) :
                        u \in { x \in db.users : x.user_id = user_id } }
                 ELSE { PyNone })

\* faulty variant, for comparison: the query without user_id in its WHERE clause
get_request_AnyUser(db, user_id, message_id) ==
    LET rows == { r \in db.requests : r.message_id = message_id }
    IN  Returned(db, IF rows = {} THEN { PyTuple(Nones(6)) }
                     ELSE { PyTuple(Columns(r, 6)) : r \in rows })

get_request(db, user_id, message_id) ==
    LET rows == { r \in db.requests :
                    r.user_id = user_id /\ r.message_id = message_id }
    IN  Returned(db, IF rows = {} THEN { PyTuple(Nones(6)) }
                     ELSE { PyTuple(Columns(r, 6)) : r \in rows })

\* ... WHERE user_id = %s ORDER BY message_id DESC LIMIT 1
get_user_last_request(db, user_id) ==
    LET rows == { r \in db.requests : r.user_id = user_id }
        message_id_desc == [r \in rows |-> 0 - r.message_id]
    IN  Returned(db, { IF s = <<>> THEN PyDict(Nones(6))
                       ELSE PyDict(Columns(s[1], 6)) :
                       s \in OrderBy(rows, message_id_desc) })

\* ... WHERE fulfill_time is NOT NULL ORDER BY fulfill_time DESC LIMIT 1
get_latest_fulfilled(db) ==
    LET rows == { r \in db.requests : r.fulfill_time # NULL }
        fulfill_time_desc == [r \in rows |-> 0 - r.fulfill_time]
    IN  Returned(db, { IF s = <<>> THEN PyDict(Nones(7))
                       ELSE PyDict(Columns(s[1], 7)) :
                       s \in OrderBy(rows, fulfill_time_desc) })

\* SELECT req_time FROM requests ORDER BY req_time ASC LIMIT 1;
\* (req_time) = next(cur, (None)) binds the whole row
get_oldest_request_time(db) ==
    LET req_time == [r \in db.requests |-> r.req_time]
    IN  Returned(db, { IF s = <<>> THEN PyNone ELSE PyTuple(<<s[1].req_time>>) :
                       s \in OrderBy(db.requests, req_time) })

\* get_leaderboard(): SELECT COUNT(message_id) AS count, fulfilled_by FROM
\* requests WHERE fulfilled_by IS NOT NULL GROUP BY fulfilled_by ORDER BY
\* count DESC; the lists of (count, fulfilled_by) rows it may return
get_leaderboard(db) ==
    LET rows == { r \in db.requests : r.fulfilled_by # NULL }
        groups == { <<Cardinality({ r \in rows : r.fulfilled_by = b }), b>> :
                    b \in { r.fulfilled_by : r \in rows } }
        count_desc == [g \in groups |-> 0 - g[1]]
    IN  OrderBy(groups, count_desc)

-----------------------------------------------------------------------------
(* Properties *)

\* what the calls of a handler read: the tables as the open transaction has them
requests == connection.db.requests
users == connection.db.users

\* the states of a request, by its fulfillment fields
Pending(r) ==
    r.fulfill_message_id = NULL /\ r.fulfill_time = NULL /\ r.fulfilled_by = NULL
Fulfilled(r) ==
    r.fulfill_message_id # NULL /\ r.fulfill_time # NULL /\ r.fulfilled_by # NULL

\* C1: every request, in the transaction's tables and in the committed ones,
\* has its three fulfillment fields all null or all non-null
C1_FulfillmentTriple ==
    \A r \in requests \cup connection.committed.requests : Pending(r) \/ Fulfilled(r)

\* C1 witness: update_fulfilled_by has run and a fulfilled request is stored
C1_Witness ==
    /\ last.op = "update_fulfilled_by"
    /\ \E r \in requests : Fulfilled(r)
    /\ \E r \in requests : Pending(r)

\* C2: a call that raises leaves the users and the requests that reads see
\* as they were before the call
C2_FailedCallLeavesData ==
    [][ (calls' = calls + 1 /\ last'.err # "none")
        => (users' = users /\ requests' = requests) ]_vars

\* the write of a finished call c is in the tables db
Written(c, db) ==
    CASE c.op = "add_user" ->
            [user_id |-> c.user_id, name |-> c.name, user_name |-> c.user_name]
                \in db.users
      [] c.op = "register_request" ->
            \E r \in db.requests :
                /\ r.message_id = c.message_id
                /\ r.user_id = c.user_id
                /\ r.req_time = c.now
      [] c.op = "register_request_fulfillment" ->
            \A r \in db.requests :
                (r.message_id = c.message_id /\ r.user_id = c.user_id)
                => ( /\ r.fulfill_message_id = c.fulfill_id
                     /\ r.fulfill_time = c.now
                     /\ r.fulfilled_by = c.fulfilled_by )
      [] OTHER -> TRUE

\* C3: when a call that commits returns without an error, its write is in the
\* committed tables
C3_OwnTransaction ==
    [][ \A h \in Handlers :
          ( /\ pc[h] # "idle"
            /\ pc'[h] = "idle"
            /\ Commits(call[h])
            /\ call[h].err = "none" )
          => Written(call[h], connection'.committed) ]_vars

\* C8: when both handlers have finished a register_request_fulfillment of the
\* same request, with different acknowledgements, the request has the three
\* fields the call that committed last gave
C8_LastCommitWins ==
    ( /\ \A h \in Handlers :
            /\ pc[h] = "idle"
            /\ call[h].op = "register_request_fulfillment"
            /\ call[h].err = "none"
      /\ call[1].message_id = call[2].message_id
      /\ call[1].fulfill_id # call[2].fulfill_id
      /\ call[1].fulfilled_by # call[2].fulfilled_by )
    => \A r \in connection.committed.requests :
          (r.message_id = call[1].message_id /\ r.user_id = call[1].user_id)
          => ( /\ r.fulfill_message_id = call[lastCommit].fulfill_id
               /\ r.fulfill_time = call[lastCommit].now
               /\ r.fulfilled_by = call[lastCommit].fulfilled_by )

\* C10: the dataset that the replay of a snapshot gives is the dataset that
\* was exported
C10_RoundTrip ==
    snapshot.stage = "replayed" => snapshot.replayed = snapshot.exported

\* C11: after get_backup_data raised, neither the archive nor a .sql file is
\* in the working directory; after it returned, only the archive is
C11_NoPartialArchive ==
    /\ snapshot.stage = "failed" => snapshot.files = {}
    /\ snapshot.stage = "exported" => snapshot.files = {"zip_file_name"}

\* the tables with the request r alone
Only(r) == [connection.db EXCEPT !.requests = {r}]

\* how often the weeks count a request: k = 1 as opened, k = 2 as fulfilled
RECURSIVE TimesCounted(_, _, _)
TimesCounted(stats, weeks, k) ==
    IF weeks = <<>> THEN 0
    ELSE stats[Head(weeks)[3]][k] + TimesCounted(stats, Tail(weeks), k)

\* C12: a request whose req_time (fulfill_time) is week_end + 1 day is not
\* counted as opened (fulfilled) in that week, and over the consecutive weeks
\* a request is counted at most once as opened and at most once as fulfilled
C12_ExclusiveEnd ==
    \A r \in requests :
        LET stats == get_weekly_stats(Only(r), Weeks) IN
        /\ \A i \in DOMAIN Weeks :
              /\ r.req_time = Weeks[i][2] + OneDay => stats[Weeks[i][3]][1] = 0
              /\ r.fulfill_time = Weeks[i][2] + OneDay => stats[Weeks[i][3]][2] = 0
        /\ TimesCounted(stats, Weeks, 1) <= 1
        /\ TimesCounted(stats, Weeks, 2) <= 1

\* the instant t lies in the week: from week_start up to, not including,
\* week_end + 1 day
InWeek(t, week) == t # NULL /\ week[1] <= t /\ t < week[2] + OneDay

\* C13: every week counts a request as opened exactly when the week contains
\* its req_time and as fulfilled exactly when the week contains its
\* fulfill_time; a request fulfilled after the week, or pending, adds nothing
\* to the week's fulfilled count
C13_CountedInOwnWeek ==
    \A r \in requests : \A i \in DOMAIN Weeks :
        LET counts == get_weekly_stats(Only(r), Weeks)[Weeks[i][3]] IN
        /\ counts[1] = IF InWeek(r.req_time, Weeks[i]) THEN 1 ELSE 0
        /\ counts[2] = IF InWeek(r.fulfill_time, Weeks[i]) THEN 1 ELSE 0

\* C14: the counts a get_weekly_stats call returns are, all of them, the counts
\* of one state the requests had during the call
C14_ConsistentSnapshot ==
    \A h \in Handlers :
        (pc[h] = "idle" /\ call[h].op = "get_weekly_stats")
        => \E db \in call[h].seen :
              call[h].results = get_weekly_stats(db, call[h].weeks)

\* the entry of a pending request in the list get_pending_requests returns
PendingEntry(r) ==
    [user_id |-> r.user_id, is_english |-> r.is_english,
     message_id |-> r.message_id, req_time |-> r.req_time]

\* every list get_pending_requests may return on db has request (u, m)
Listed(db, u, m) ==
    \A res \in get_pending_requests(db) :
        \E i \in DOMAIN res : res[i].user_id = u /\ res[i].message_id = m

\* no list get_pending_requests may return on db has message m
Unlisted(db, m) ==
    \A res \in get_pending_requests(db) :
        \A i \in DOMAIN res : res[i].message_id # m

\* the request of user u with message id m is stored
Stored(db, u, m) ==
    \E r \in db.requests : r.user_id = u /\ r.message_id = m

\* C15: get_pending_requests returns the Pending requests, each once, by
\* ascending req_time; a request is in it after register_request, no longer
\* after a matching register_request_fulfillment, and again after a matching
\* mark_request_not_done
C15_PendingList ==
    /\ [](\A res \in get_pending_requests(connection.db) :
            /\ { res[i] : i \in DOMAIN res }
                  = { PendingEntry(r) : r \in { x \in requests : Pending(x) } }
            /\ \A i, j \in DOMAIN res : i # j => res[i] # res[j]
            /\ \A i, j \in DOMAIN res : i < j => res[i].req_time <= res[j].req_time)
    /\ [][ \A u \in UserIds, m \in MsgIds :
            /\ ( /\ last' = [op |-> "register_request", err |-> "none"]
                 /\ \E e \in BOOLEAN : register_request(u, e, m) )
                  => Listed(connection'.db, u, m)
            /\ ( /\ last'.op = "register_request_fulfillment"
                 /\ Stored(connection.db, u, m)
                 /\ \E f \in AckIds, b \in UserIds :
                        register_request_fulfillment(u, m, f, b) )
                  => Unlisted(connection'.db, m)
            /\ ( /\ last'.op = "mark_request_not_done"
                 /\ Stored(connection.db, u, m)
                 /\ mark_request_not_done(u, m) )
                  => Listed(connection'.db, u, m) ]_vars

\* C15 witness: a request was reverted, and two requests opened at different
\* instants are pending
C15_Witness ==
    /\ last = [op |-> "mark_request_not_done", err |-> "none"]
    /\ \E res \in get_pending_requests(connection.db) :
          Len(res) = 2 /\ res[1].req_time < res[2].req_time
                      /\ res[1].message_id > res[2].message_id

\* C16: when register_request_fulfillment has fulfilled a Pending request of
\* its user, mark_request_not_done for the same user and message gives back
\* the requests as they were before: the three fields null again, the other
\* fields and the other requests untouched
C16_FulfillRevert ==
    [][ \A u \in UserIds, m \in MsgIds :
          ( /\ last'.op = "register_request_fulfillment"
            /\ \E r \in requests : r.user_id = u /\ r.message_id = m /\ Pending(r)
            /\ \E f \in AckIds, b \in UserIds : register_request_fulfillment(u, m, f, b) )
          => LET back == TryExceptFinallyCommit(connection',
                            ClearFulfillment(connection'.db, u, m)) IN
             /\ last'.err = "none"
             /\ \E r \in connection'.db.requests :
                   r.user_id = u /\ r.message_id = m /\ Fulfilled(r)
             /\ back.err = "none"
             /\ back.connection.db = connection.db
             /\ back.connection.committed = connection.committed ]_vars

\* C16 witness: a request was opened, fulfilled and reverted, and is pending
C16_Witness ==
    /\ last = [op |-> "mark_request_not_done", err |-> "none"]
    /\ calls = 3 /\ clock = 2
    /\ \E r \in requests : requests = {r} /\ Pending(r) /\ r.req_time = 1

\* C17: when update_user returns for a stored user, the new name and
\* user_name are in the committed users
C17_UpdateUserCommitted ==
    [][ \A u \in UserIds, p \in Profiles :
          ( /\ last' = [op |-> "update_user", err |-> "none"]
            /\ \E x \in users : x.user_id = u
            /\ update_user(u, p[1], p[2]) )
          => [user_id |-> u, name |-> p[1], user_name |-> p[2]]
                \in connection'.committed.users ]_vars

\* C18: create_schema raises nothing; on existing tables it leaves the users
\* and the requests as they are; and a second create_schema changes nothing
\* that the first one left
C18_CreateSchemaIdempotent ==
    /\ [][ (last'.op = "create_schema" /\ create_schema)
            => /\ last'.err = "none"
               /\ connection.db.tables
                    => (users' = users /\ requests' = requests
                        /\ connection'.committed = connection.db) ]_vars
    /\ [](LET once == TryExceptFinallyCommit(connection, CreateTables(connection.db))
              twice == TryExceptFinallyCommit(once.connection,
                                              CreateTables(once.connection.db))
          IN  once.err = "none" /\ twice = once)

\* C18 witness: create_schema was called on tables that hold a user and a request
C18_Witness ==
    /\ last = [op |-> "create_schema", err |-> "none"]
    /\ calls > 0
    /\ users # {} /\ requests # {}

\* every result is returned, not raised, and it is the marker exactly when
\* no row matches
Marks(results, absent, marker) ==
    \A x \in results : x.err = "none" /\ (absent <=> x.value = marker)

\* C19: on existing tables each lookup returns without raising, and returns
\* its absence marker (None, or the tuple or dict of Nones) when no row
\* matches and something else when a row matches
C19_AbsenceMarkers ==
    connection.db.tables =>
    \A u \in UserIds, m \in MsgIds :
        LET db == connection.db
            unknown == ~ \E x \in users : x.user_id = u
        IN  /\ Marks(get_user(db, u), unknown, PyNone)
            /\ Marks(get_user_details(db, u), unknown, PyNone)
            /\ Marks(get_request(db, u, m), ~Stored(db, u, m), PyTuple(Nones(6)))
            /\ Marks(get_user_last_request(db, u),
                     ~ \E r \in requests : r.user_id = u, PyDict(Nones(6)))
            /\ Marks(get_latest_fulfilled(db),
                     ~ \E r \in requests : Fulfilled(r), PyDict(Nones(7)))
            /\ Marks(get_oldest_request_time(db), requests = {}, PyNone)

\* C19 witness: one user is stored and the other is not, a request is stored
\* and none is fulfilled: some lookups find a row and some find none
C19_Witness ==
    /\ connection.db.tables
    /\ last = [op |-> "register_request", err |-> "none"]
    /\ Cardinality(users) = 1 /\ Cardinality(requests) = 1
    /\ \A r \in requests : Pending(r)

\* C20: register_request_fulfillment for a user_id and message_id that no
\* request has together raises nothing and leaves the users and the requests
\* as they are
C20_FulfillNoMatch ==
    [][ \A u \in UserIds, m \in MsgIds :
          ( /\ last'.op = "register_request_fulfillment"
            /\ ~Stored(connection.db, u, m)
            /\ \E f \in AckIds, b \in UserIds : register_request_fulfillment(u, m, f, b) )
          => /\ last'.err = "none"
             /\ users' = users /\ requests' = requests
             /\ connection'.committed = connection.committed ]_vars

\* C20 witness: the last call was a fulfillment, of a message of another user,
\* and the stored request is still pending
C20_Witness ==
    /\ last = [op |-> "register_request_fulfillment", err |-> "none"]
    /\ calls = 2
    /\ \E r \in requests : requests = {r} /\ Pending(r)

\* C21: update_fulfilled_by changes one row at most, the one whose
\* fulfill_message_id is the id given, and of that row only fulfilled_by;
\* every other request is as it was
C21_ReassignOneRow ==
    [][ \A f \in AckIds :
          ( /\ last'.op = "update_fulfilled_by"
            /\ \E b \in UserIds : update_fulfilled_by(f, b) )
          => /\ Cardinality({ r \in requests : r \notin requests' }) <= 1
             /\ Cardinality(requests') = Cardinality(requests)
             /\ \A r \in requests :
                   \/ r \in requests'
                   \/ /\ r.fulfill_message_id = f
                      /\ \E b \in UserIds :
                            [r EXCEPT !.fulfilled_by = b] \in requests' ]_vars

\* the fields of a request that are set when it is created
Creation(r) == <<r.message_id, r.user_id, r.is_english, r.req_time>>

\* C22: no call changes the message_id, user_id, is_english or req_time of a
\* request: a message_id that is stored before and after a call has the same
\* four fields, in the tables reads see and in the committed ones
C22_CreationFieldsKept ==
    [][ /\ \A r \in requests : \A x \in requests' :
              x.message_id = r.message_id => Creation(x) = Creation(r)
        /\ \A r \in connection.committed.requests :
              \A x \in connection'.committed.requests :
                  x.message_id = r.message_id => Creation(x) = Creation(r) ]_vars

\* C22 witness: a request was fulfilled, and then a register_request that
\* reused its message id was refused
C22_Witness ==
    /\ last = [op |-> "register_request", err |-> "UniqueViolation"]
    /\ \E r \in requests : Fulfilled(r)

\* the counts of a leaderboard, added up
RECURSIVE SumCounts(_)
SumCounts(result) ==
    IF result = <<>> THEN 0 ELSE Head(result)[1] + SumCounts(Tail(result))

\* C23: the counts of get_leaderboard add up to the fulfilled requests that
\* get_global_stats counts (English and non-English together)
C23_LeaderboardSum ==
    \A result \in get_leaderboard(connection.db) :
        SumCounts(result) = get_global_stats(connection.db)[1]
                            + get_global_stats(connection.db)[2]

\* C23 witness: after update_fulfilled_by the two fulfilled requests are
\* those of one helper, who has the leaderboard alone
C23_Witness ==
    /\ last = [op |-> "update_fulfilled_by", err |-> "none"]
    /\ \E result \in get_leaderboard(connection.db) :
          Len(result) = 1 /\ result[1][1] = 2
    /\ \E r, x \in requests : r.fulfill_message_id # x.fulfill_message_id

\* C4: every request's user_id is the id of a stored user, also after a user
\* was removed
C4_ForeignKey ==
    /\ \A r \in requests : \E u \in users : u.user_id = r.user_id
    /\ \A r \in connection.committed.requests :
          \E u \in connection.committed.users : u.user_id = r.user_id

\* C4 witness: a user was removed while requests are stored
C4_Witness ==
    /\ last = [op |-> "run_qeury", err |-> "none"]
    /\ requests # {}
    /\ \E u \in UserIds : \A x \in users : x.user_id # u

\* C5: no two requests share a message_id, and register_request for a user
\* that is not stored or a message_id that is stored raises and leaves the
\* requests, those of the transaction and the committed ones, as they were
C5_RegisterRequestFails ==
    /\ [](\A r1, r2 \in requests : r1.message_id = r2.message_id => r1 = r2)
    /\ [][ \A u \in UserIds, e \in BOOLEAN, m \in MsgIds :
              ( /\ register_request(u, e, m)
                /\ \/ ~ForeignKeyHolds(connection.db, u)
                   \/ ~PrimaryKeyFree(connection.db, m) )
              => ( /\ last'.err # "none"
                   /\ requests' = requests
                   /\ connection'.committed.requests = connection.committed.requests )
          ]_vars

\* C5 witness: register_request has failed on a message_id that is stored
C5_Witness ==
    /\ last = [op |-> "register_request", err |-> "UniqueViolation"]
    /\ requests # {}

\* the number of the rows that are / are not english and are fulfilled / pending
Bucket(rows, english, fulfilled) ==
    Cardinality({ r \in rows : r.is_english = english
                                /\ (IF fulfilled THEN Fulfilled(r) ELSE Pending(r)) })

Buckets(rows) ==
    <<Bucket(rows, TRUE, TRUE), Bucket(rows, FALSE, TRUE),
      Bucket(rows, TRUE, FALSE), Bucket(rows, FALSE, FALSE)>>

Sum4(t) == t[1] + t[2] + t[3] + t[4]

\* C6: get_user_stats(u) is the four bucket counts of u's requests, and they
\* add up to the number of u's requests
C6_UserStats ==
    \A u \in UserIds :
        LET mine == { r \in requests : r.user_id = u } IN
        /\ get_user_stats(connection.db, u) = Buckets(mine)
        /\ Sum4(get_user_stats(connection.db, u)) = Cardinality(mine)

\* C6 witness: a user has a fulfilled and a pending request
C6_Witness ==
    \E u \in UserIds :
        /\ get_user_stats(connection.db, u)[1] + get_user_stats(connection.db, u)[2] = 1
        /\ get_user_stats(connection.db, u)[3] + get_user_stats(connection.db, u)[4] = 1

\* C7: the four counts of get_global_stats add up to the number of requests
C7_GlobalStats ==
    Sum4(get_global_stats(connection.db)) = Cardinality(requests)

\* C7 witness: two users, one english request each, one fulfilled and one pending
C7_Witness ==
    /\ get_global_stats(connection.db) = <<1, 0, 1, 0>>
    /\ { r.user_id : r \in requests } = UserIds
    /\ last.op = "register_request_fulfillment"

\* C9: a request that has a fulfill_time has it at or after its req_time
C9_FulfillAfterRequest ==
    \A r \in requests \cup connection.committed.requests :
        r.fulfill_time # NULL => r.fulfill_time >= r.req_time

\* C9 witness: a request is fulfilled at a later instant than it was opened,
\* by the fourth call of the run (open, fulfill, revert, fulfill)
C9_Witness ==
    /\ last = [op |-> "register_request_fulfillment", err |-> "none"]
    /\ calls = 4
    /\ \E r \in requests : r.fulfill_time = 2 /\ r.req_time = 0

====
